---- MODULE Spec2Model ----
(***************************************************************************)
(* python/backend.py: a FastAPI application object with one route,         *)
(* GET /status, whose handler get_status returns a fixed JSONResponse.     *)
(*                                                                         *)
(* The module models the application object built at import time (the      *)
(* routes the FastAPI() constructor registers with its default arguments   *)
(* and the route the @app.get decorator appends), the framework's router   *)
(* as it dispatches a request over those routes, and get_status running    *)
(* as a synchronous endpoint on the framework's worker threads, so that    *)
(* several invocations are in flight at once.                              *)
(***************************************************************************)
EXTENDS Naturals, Sequences, FiniteSets, TLC

\* Number of connections the host serves at once.
MaxInFlight == 2

Conns == 1..MaxInFlight

(***************************************************************************)
(* Paths are sequences of segments: "/status" is <<"status">> and          *)
(* "/status/" is <<"status", "">> (a trailing empty segment is a trailing  *)
(* slash).                                                                 *)
(***************************************************************************)
RECURSIVE path_str(_)
path_str(p) ==
    IF p = <<>> THEN "" ELSE "/" \o Head(p) \o path_str(Tail(p))

endswith_slash(p) == Len(p) > 0 /\ p[Len(p)] = ""

RECURSIVE rstrip_slash(_)
rstrip_slash(p) ==
    IF endswith_slash(p) THEN rstrip_slash(SubSeq(p, 1, Len(p) - 1)) ELSE p

STATUS_PATH == <<"status">>

\* The paths requests are drawn from.
Paths ==
    { STATUS_PATH, <<"status", "">>, <<"unknown">>, <<"">>, <<"docs">>,
      <<"openapi.json">> }

Methods == {"GET", "POST", "HEAD"}

(***************************************************************************)
(* What a request carries besides its method and path. The variants differ *)
(* from the bare request in the query string, in a header or in the body.  *)
(***************************************************************************)
Carried ==
    { [query |-> "",          header |-> "",                  body |-> ""],
      [query |-> "verbose=1", header |-> "",                  body |-> ""],
      [query |-> "",          header |-> "Accept: text/html", body |-> ""],
      [query |-> "",          header |-> "",                  body |-> "{\"msg\":\"x\"}"] }

Request(m, p, k) ==
    [method |-> m, path |-> p, query |-> k.query, header |-> k.header,
     body |-> k.body]

\* Every method on every path; the requests to /status and /status/ in
\* every variant of what they carry, the others bare.
Requests ==
    { Request(m, p, k) : m \in Methods, p \in Paths,
                         k \in {[query |-> "", header |-> "", body |-> ""]} }
    \cup { Request(m, p, k) : m \in Methods,
                              p \in {STATUS_PATH, <<"status", "">>},
                              k \in Carried }

NoRequest ==
    [method |-> "", path |-> <<>>, query |-> "", header |-> "", body |-> ""]

IsGetStatus(r) == r.method = "GET" /\ r.path = STATUS_PATH

(***************************************************************************)
(* Responses. Response.init_headers sets content-type from the media type, *)
(* adding the charset to text/ media types only. A media type is the pair  *)
(* <<type, subtype>>, or <<>> for a response class that has none.          *)
(***************************************************************************)
content_type(media_type) ==
    IF media_type = <<>> THEN ""
    ELSE media_type[1] \o "/" \o media_type[2]
            \o (IF media_type[1] = "text" THEN "; charset=utf-8" ELSE "")

Response(status_code, media_type, body, location) ==
    [status_code |-> status_code, content_type |-> content_type(media_type),
     body |-> body, location |-> location]

NoResponse ==
    [status_code |-> 0, content_type |-> "", body |-> "", location |-> ""]

(***************************************************************************)
(* JSONResponse.render: json.dumps(content, separators=(",", ":")) of a    *)
(* dict of strings, given as the sequence of its <<key, value>> items.     *)
(***************************************************************************)
json_str(s) == "\"" \o s \o "\""

RECURSIVE json_items(_)
json_items(items) ==
    IF items = <<>> THEN ""
    ELSE json_str(items[1][1]) \o ":" \o json_str(items[1][2])
            \o (IF Len(items) > 1 THEN "," ELSE "")
            \o json_items(Tail(items))

json_dumps(content) == "{" \o json_items(content) \o "}"

JSONResponseWithStatus(content, status_code) ==
    Response(status_code, <<"application", "json">>, json_dumps(content), "")

HTMLResponse(body) == Response(200, <<"text", "html">>, body, "")

PlainTextResponse(body) == Response(200, <<"text", "plain">>, body, "")

JSONResponse(content) == JSONResponseWithStatus(content, 200)

RedirectResponse(url) == Response(307, <<>>, "", url)

(***************************************************************************)
(* The endpoint. get_status takes no parameter and returns                 *)
(* JSONResponse(content={"msg": "Servidor FastAPI ativo e funcional!"}).   *)
(***************************************************************************)
VARIABLES
    app,        \* the application object: its route table and cached schema
    req,        \* req[c]: the request connection c is serving
    pc,         \* pc[c]: "idle", "handler" (get_status running), "sent"
    resp,       \* resp[c]: the response sent on connection c
    overlap,    \* overlap[c]: another get_status was running when c's returned
    first       \* the first response get_status ever returned

vars == <<app, req, pc, resp, overlap, first>>

STATUS_MSG == "Servidor FastAPI ativo e funcional!"

\* Faulty variants of get_status: an extra field, a response that reads the
\* application's state, one that reads the other invocations in flight, and
\* a response of another class.
get_status_two_fields ==
    JSONResponse(<< <<"msg", STATUS_MSG>>, <<"status", "ok">> >>)

get_status_stateful ==
    IF app.openapi_schema = "None"
    THEN JSONResponse(<< <<"msg", STATUS_MSG>> >>)
    ELSE JSONResponse(<< <<"msg", "Servidor FastAPI ativo e funcional! (docs)">> >>)

get_status_shared ==
    IF Cardinality({c \in Conns : pc[c] = "handler"}) > 1
    THEN JSONResponse(<< <<"msg", "ocupado">> >>)
    ELSE JSONResponse(<< <<"msg", STATUS_MSG>> >>)

get_status_plain == PlainTextResponse(json_dumps(<< <<"msg", STATUS_MSG>> >>))

get_status == JSONResponse(<< <<"msg", STATUS_MSG>> >>)

\* Faulty variant of run_endpoint: the handler declares a query parameter.
run_endpoint_query(r) ==
    IF r.query = "" THEN get_status
    ELSE JSONResponse(<< <<"msg", STATUS_MSG>>, <<"query", r.query>> >>)

(***************************************************************************)
(* The framework calls the endpoint with the values its signature asks     *)
(* for; get_status() asks for none, so nothing of the request reaches it.  *)
(***************************************************************************)
run_endpoint(r) == get_status

(***************************************************************************)
(* The application object. FastAPI() with its default arguments registers  *)
(* the schema and documentation routes (Starlette routes: GET and HEAD);   *)
(* @app.get("/status") appends an API route for GET alone.                 *)
(***************************************************************************)
Route(path, methods, endpoint) ==
    [path |-> path, methods |-> methods, endpoint |-> endpoint]

FastAPI ==
    [routes |->
        << Route(<<"openapi.json">>, {"GET", "HEAD"}, "openapi"),
           Route(<<"docs">>, {"GET", "HEAD"}, "swagger_ui_html"),
           Route(<<"docs", "oauth2-redirect">>, {"GET", "HEAD"}, "swagger_ui_redirect"),
           Route(<<"redoc">>, {"GET", "HEAD"}, "redoc_html") >>,
     openapi_schema |-> "None"]

\* Faulty variant of app_get: the route is registered for POST as well.
app_api_route(a, path, endpoint) ==
    [a EXCEPT !.routes = Append(@, Route(path, {"GET", "POST"}, endpoint))]

app_get(a, path, endpoint) ==
    [a EXCEPT !.routes = Append(@, Route(path, {"GET"}, endpoint))]

\* Faulty variant of app_init: the module registers a second route.
app_init_two_routes ==
    app_get(app_get(FastAPI, STATUS_PATH, "get_status"), <<"unknown">>, "get_status")

app_init == app_get(FastAPI, STATUS_PATH, "get_status")

\* The routes the module itself registers: those the constructor did not.
user_routes(a) ==
    { a.routes[i].path : i \in (Len(FastAPI.routes) + 1)..Len(a.routes) }

(***************************************************************************)
(* Router: the first route that matches in full handles the request; else  *)
(* the first that matches the path but not the method answers 405; else a  *)
(* route matching the path with its trailing slash toggled makes the       *)
(* router redirect; else 404.                                              *)
(***************************************************************************)
matches(route, method, path) ==
    IF route.path # path THEN "NONE"
    ELSE IF method \notin route.methods THEN "PARTIAL"
    ELSE "FULL"

First(S) == CHOOSE i \in S : \A j \in S : i <= j

router(a, r) ==
    LET idx == 1..Len(a.routes)
        full == { i \in idx : matches(a.routes[i], r.method, r.path) = "FULL" }
        partial == { i \in idx : matches(a.routes[i], r.method, r.path) = "PARTIAL" }
        redirect_path ==
            IF endswith_slash(r.path) THEN rstrip_slash(r.path)
            ELSE Append(r.path, "")
        redirect ==
            { i \in idx : matches(a.routes[i], r.method, redirect_path) # "NONE" }
    IN  IF full # {}
        THEN [kind |-> "FULL", endpoint |-> a.routes[First(full)].endpoint, url |-> ""]
        ELSE IF partial # {}
        THEN [kind |-> "PARTIAL", endpoint |-> "", url |-> ""]
        ELSE IF r.path # <<"">> /\ redirect # {}
        THEN [kind |-> "REDIRECT", endpoint |-> "",
              url |-> path_str(redirect_path)
                        \o (IF r.query = "" THEN "" ELSE "?" \o r.query)]
        ELSE [kind |-> "NONE", endpoint |-> "", url |-> ""]

\* Endpoints declared with def run on a worker thread; async def ones run
\* on the event loop, within the dispatch.
sync_endpoints == {"get_status"}

\* The responses of the framework's own endpoints and of its defaults.
framework_response(o) ==
    CASE o.kind = "PARTIAL" ->
            JSONResponseWithStatus(<< <<"detail", "Method Not Allowed">> >>, 405)
      [] o.kind = "REDIRECT" -> RedirectResponse(o.url)
      [] o.kind = "NONE" ->
            JSONResponseWithStatus(<< <<"detail", "Not Found">> >>, 404)
      [] o.kind = "FULL" /\ o.endpoint = "openapi" ->
            Response(200, <<"application", "json">>, "<openapi schema>", "")
      [] OTHER -> HTMLResponse("<" \o o.endpoint \o ">")

\* app.openapi() builds the schema on first use and caches it on the object.
framework_effect(a, o) ==
    IF o.kind = "FULL" /\ o.endpoint = "openapi" /\ a.openapi_schema = "None"
    THEN [a EXCEPT !.openapi_schema = "generated"]
    ELSE a

Init ==
    /\ app = app_init
    /\ req = [c \in Conns |-> NoRequest]
    /\ pc = [c \in Conns |-> "idle"]
    /\ resp = [c \in Conns |-> NoResponse]
    /\ overlap = [c \in Conns |-> FALSE]
    /\ first = NoResponse

\* A request whose route is get_status: the endpoint is handed to a worker.
Dispatch(c, r) ==
    /\ pc[c] = "idle"
    /\ LET o == router(app, r)
       IN  o.kind = "FULL" /\ o.endpoint \in sync_endpoints
    /\ req' = [req EXCEPT ![c] = r]
    /\ pc' = [pc EXCEPT ![c] = "handler"]
    /\ UNCHANGED <<app, resp, overlap, first>>

\* Any other request: the framework answers it within the dispatch.
Respond(c, r) ==
    /\ pc[c] = "idle"
    /\ LET o == router(app, r)
       IN  /\ ~(o.kind = "FULL" /\ o.endpoint \in sync_endpoints)
           /\ resp' = [resp EXCEPT ![c] = framework_response(o)]
           /\ app' = framework_effect(app, o)
    /\ req' = [req EXCEPT ![c] = r]
    /\ pc' = [pc EXCEPT ![c] = "sent"]
    /\ UNCHANGED <<overlap, first>>

\* Faulty variants of Return: the handler writes to the application object;
\* the handler waits for the schema to have been generated.
ReturnWriting(c) ==
    /\ pc[c] = "handler"
    /\ resp' = [resp EXCEPT ![c] = run_endpoint(req[c])]
    /\ overlap' = [overlap EXCEPT ![c] = \E d \in Conns \ {c} : pc[d] = "handler"]
    /\ first' = IF first = NoResponse THEN run_endpoint(req[c]) ELSE first
    /\ pc' = [pc EXCEPT ![c] = "sent"]
    /\ app' = [app EXCEPT !.openapi_schema = "None"]
    /\ UNCHANGED req

ReturnWaiting(c) ==
    /\ pc[c] = "handler"
    /\ app.openapi_schema # "None"
    /\ resp' = [resp EXCEPT ![c] = run_endpoint(req[c])]
    /\ overlap' = [overlap EXCEPT ![c] = \E d \in Conns \ {c} : pc[d] = "handler"]
    /\ first' = IF first = NoResponse THEN run_endpoint(req[c]) ELSE first
    /\ pc' = [pc EXCEPT ![c] = "sent"]
    /\ UNCHANGED <<app, req>>

\* get_status runs to its return statement.
Return(c) ==
    /\ pc[c] = "handler"
    /\ resp' = [resp EXCEPT ![c] = run_endpoint(req[c])]
    /\ overlap' = [overlap EXCEPT ![c] = \E d \in Conns \ {c} : pc[d] = "handler"]
    /\ first' = IF first = NoResponse THEN run_endpoint(req[c]) ELSE first
    /\ pc' = [pc EXCEPT ![c] = "sent"]
    /\ UNCHANGED <<app, req>>

\* The client has read the response; the connection serves the next request.
Complete(c) ==
    /\ pc[c] = "sent"
    /\ req' = [req EXCEPT ![c] = NoRequest]
    /\ resp' = [resp EXCEPT ![c] = NoResponse]
    /\ overlap' = [overlap EXCEPT ![c] = FALSE]
    /\ pc' = [pc EXCEPT ![c] = "idle"]
    /\ UNCHANGED <<app, first>>

Next ==
    \E c \in Conns :
        \/ \E r \in Requests : Dispatch(c, r)
        \/ \E r \in Requests : Respond(c, r)
        \/ Return(c)
        \/ Complete(c)

Spec == Init /\ [][Next]_vars

\* The worker pool runs every handler it was handed.
FairSpec == Spec /\ \A c \in Conns : WF_vars(Return(c))

(***************************************************************************)
(* Properties.                                                             *)
(***************************************************************************)
Sent(c) == pc[c] = "sent"

SentStatus(c) == Sent(c) /\ IsGetStatus(req[c])

\* The body of the status response, as bytes.
ExpectedBody == "{\"msg\":\"Servidor FastAPI ativo e funcional!\"}"

\* C1: every GET /status is answered with status 200 and the JSON object
\* whose one field msg is "Servidor FastAPI ativo e funcional!", and with
\* nothing else.
C1_StatusAnswer ==
    \A c \in Conns :
        SentStatus(c) =>
            /\ resp[c].status_code = 200
            /\ resp[c].body = ExpectedBody
            /\ resp[c].location = ""

C1_Witness ==
    \E c \in Conns : SentStatus(c) /\ resp[c].status_code = 200

\* C2: whatever requests came before, every response to GET /status is
\* byte-identical to the first response get_status ever returned.
C2_SameAsFirst ==
    \A c \in Conns : SentStatus(c) => resp[c] = first

\* Two answered GET /status (one of them is not the first) after a request
\* to another path has changed the application object.
C2_Witness ==
    /\ app.openapi_schema = "generated"
    /\ \E c, d \in Conns : c # d /\ SentStatus(c) /\ SentStatus(d)

\* C3: a request to /status with a method other than GET never reaches
\* get_status; it is answered 405, and not with the status body.
C3_MethodNotAllowed ==
    \A c \in Conns :
        (pc[c] # "idle" /\ req[c].path = STATUS_PATH /\ req[c].method # "GET") =>
            /\ Sent(c)
            /\ resp[c].status_code = 405
            /\ resp[c].body # ExpectedBody

C3_Witness ==
    \E c, d \in Conns :
        /\ Sent(c) /\ req[c].path = STATUS_PATH /\ req[c].method = "POST"
        /\ Sent(d) /\ req[d].path = STATUS_PATH /\ req[d].method = "HEAD"
        /\ resp[c].status_code = 405 /\ resp[d].status_code = 405

\* C4, as claimed: every request to a path other than /status is answered
\* 404.
C4_OtherPathsNotFound ==
    \A c \in Conns :
        (Sent(c) /\ req[c].path # STATUS_PATH) => resp[c].status_code = 404

\* The paths FastAPI() serves by default.
FrameworkPaths ==
    { <<"openapi.json">>, <<"docs">>, <<"docs", "oauth2-redirect">>, <<"redoc">> }

\* C4, amended: the module registers no route but /status, and a request
\* is answered 404 when its path is neither /status nor one of the
\* framework's default paths, nor one of these with a trailing slash.
C4_UnroutedNotFound ==
    /\ user_routes(app) = {STATUS_PATH}
    /\ \A c \in Conns :
        (/\ Sent(c)
         /\ rstrip_slash(req[c].path) \notin ({STATUS_PATH} \cup FrameworkPaths))
            => resp[c].status_code = 404

C4_Witness ==
    \E c, d \in Conns :
        /\ Sent(c) /\ req[c].method = "GET" /\ req[c].path = <<"unknown">>
        /\ resp[c].status_code = 404
        /\ Sent(d) /\ req[d].path = <<"">> /\ resp[d].status_code = 404

C6_ConcurrentStatus ==
    \A c \in Conns :
        (SentStatus(c) /\ overlap[c]) =>
            /\ resp[c].status_code = 200
            /\ resp[c].body = ExpectedBody
            /\ \A d \in Conns : (SentStatus(d) /\ ~overlap[d]) => resp[d] = resp[c]

C6_Witness ==
    \E c, d \in Conns :
        SentStatus(c) /\ overlap[c] /\ SentStatus(d) /\ ~overlap[d]

\* C7: two GET /status requests that differ in what they carry receive the
\* same status, content type and body.
C7_RequestIndependent ==
    \A c, d \in Conns :
        (SentStatus(c) /\ SentStatus(d) /\ req[c] # req[d]) =>
            /\ resp[c].status_code = resp[d].status_code
            /\ resp[c].content_type = resp[d].content_type
            /\ resp[c].body = resp[d].body

C7_Witness ==
    \E c, d \in Conns :
        /\ SentStatus(c) /\ SentStatus(d)
        /\ req[c].query # req[d].query
        /\ resp[c] = resp[d]

\* C8: the response to GET /status has Content-Type application/json.
C8_ContentTypeJson ==
    \A c \in Conns : SentStatus(c) => resp[c].content_type = "application/json"

\* A status response beside a response of the framework of another type.
C8_Witness ==
    \E c, d \in Conns :
        /\ SentStatus(c) /\ resp[c].content_type = "application/json"
        /\ Sent(d) /\ resp[d].content_type = "text/html; charset=utf-8"

\* C9: a running get_status can always take its step, whatever the other
\* connections are doing; it returns; and the response it sent is not
\* replaced by another.
C9_HandlerTotal ==
    /\ [](\A c \in Conns : pc[c] = "handler" => ENABLED Return(c))
    /\ \A c \in Conns : (pc[c] = "handler") ~> (pc[c] = "sent")
    /\ [][\A c \in Conns :
            (pc[c] = "sent" /\ pc'[c] = "sent") => resp'[c] = resp[c]]_vars

\* get_status has returned while another invocation was still running.
C9_Witness ==
    \E c, d \in Conns :
        SentStatus(c) /\ overlap[c] /\ pc[d] = "handler" /\ c # d

====
